---- MODULE Spec2Model ----
(***************************************************************************)
(* Model of the IP layer of the router (src/ip.c): validation of a         *)
(* received datagram, classification, routing lookup, next-hop dispatch    *)
(* and the construction of locally built ICMP datagrams.                   *)
(*                                                                         *)
(* An in_addr is modelled by its four bytes as they lie in memory (network *)
(* byte order); a 32-bit host-order value is modelled by the pair          *)
(* <<high 16 bits, low 16 bits>>, a 16-bit field stored in network order   *)
(* by its two bytes.                                                       *)
(***************************************************************************)
EXTENDS Integers, Sequences, FiniteSets, TLC

VARIABLES
    sr,            \* the router instance: if_list and routing_table (read-only)
    buffered,      \* datagrams waiting for address resolution, oldest first
    heap,          \* state of every heap address
    calls,         \* the calls made by the last run, in order
    ip_datagram,   \* the datagram of the last run, as the run left it
    ip_datagram0,  \* the same datagram as received (as composed, for ICMP)
    run,           \* entry point and arguments of the last run
    branch,        \* the branch the last run took
    aborted,       \* an assertion failed: the process is gone
    rt_dest,       \* argument of the last direct routing lookup
    rt_result      \* its result

vars == <<sr, buffered, heap, calls, ip_datagram, ip_datagram0, run, branch, aborted,
          rt_dest, rt_result>>

(***************************************************************************)
(* Bounds of the model.                                                    *)
(***************************************************************************)
MaxQueue == 2

MaxRoutes == 2

(***************************************************************************)
(* Program constants.                                                      *)
(***************************************************************************)
NULL == 0

IPV4_VERSION == 4

DEFAULT_IP_HEADER_LEN == 5

DEFAULT_IP_TOS == 0

DEFAULT_IP_ID == 0

DEFAULT_IP_FRAGMENT == 0

DEFAULT_IP_TTL == 64

IPPROTO_ICMP == 1

IPPROTO_TCP == 6

ICMP_REQUEST == 8

ICMP_DEST_UNREACH == 3

ICMP_TIME_EXCEEDED == 11

MIN_ICMP_MSG_LEN == 8

ETHER_HDR_LEN == 14

ARP_RESOLVE_SUCCESS == "ARP_RESOLVE_SUCCESS"

ARP_REQUEST_SENT == "ARP_REQUEST_SENT"

ARP_RESOLVE_FAIL == "ARP_RESOLVE_FAIL"

(***************************************************************************)
(* Machine arithmetic.                                                     *)
(***************************************************************************)
RECURSIVE BitAnd(_, _, _)
BitAnd(x, y, n) ==
    IF n = 0 THEN 0
    ELSE (x % 2) * (y % 2) + 2 * BitAnd(x \div 2, y \div 2, n - 1)

\* x & y for 4-bit operands, tabulated
And4 == [x \in 0..15 |-> [y \in 0..15 |-> BitAnd(x, y, 4)]]

\* x & y for 16-bit operands, four bits at a time
And16(x, y) ==
    And4[x % 16][y % 16]
    + 16 * And4[(x \div 16) % 16][(y \div 16) % 16]
    + 256 * And4[(x \div 256) % 16][(y \div 256) % 16]
    + 4096 * And4[(x \div 4096) % 16][(y \div 4096) % 16]

\* uint32 & uint32 on <<high, low>> pairs
And32(x, y) == <<And16(x[1], y[1]), And16(x[2], y[2])>>

\* uint32 >= uint32 on <<high, low>> pairs
Geq32(x, y) == x[1] > y[1] \/ (x[1] = y[1] /\ x[2] >= y[2])

\* the host-order value of the four bytes of an in_addr
ntohl(a) == <<a[1] * 256 + a[2], a[3] * 256 + a[4]>>

\* the host-order value of a 16-bit field stored in network order
ntohs(b) == b[1] * 256 + b[2]

\* the two bytes, in network order, of a 16-bit host value
htons(n) == <<(n \div 256) % 256, n % 256>>

IP(a, b, c, d) == <<a, b, c, d>>

NoIP == IP(0, 0, 0, 0)

(***************************************************************************)
(* The header checksum: one's-complement sum of the 16-bit words of the    *)
(* first nbytes bytes of the header, complemented.                         *)
(***************************************************************************)
HeaderWords(h) ==
    << (h.ip_v * 16 + h.ip_hl) * 256 + h.ip_tos,
       h.ip_len[1] * 256 + h.ip_len[2],
       h.ip_id[1] * 256 + h.ip_id[2],
       h.ip_off[1] * 256 + h.ip_off[2],
       h.ip_ttl * 256 + h.ip_p,
       h.ip_sum,
       h.ip_src[1] * 256 + h.ip_src[2],
       h.ip_src[3] * 256 + h.ip_src[4],
       h.ip_dst[1] * 256 + h.ip_dst[2],
       h.ip_dst[3] * 256 + h.ip_dst[4] >>

RECURSIVE SumWords(_, _)
SumWords(w, n) == IF n = 0 THEN 0 ELSE w[n] + SumWords(w, n - 1)

RECURSIVE Fold16(_)
Fold16(s) == IF s < 65536 THEN s ELSE Fold16((s % 65536) + (s \div 65536))

csum(h, nbytes) == 65535 - Fold16(SumWords(HeaderWords(h), nbytes \div 2))

(***************************************************************************)
(* ipDatagramShouldBeDropped: works on a copy of the header.               *)
(***************************************************************************)
\* faulty variant: the checksum is not verified
ipDatagramShouldBeDropped_nosum(ip_hdr) ==
    IF ntohs(ip_hdr.ip_len) < 20 THEN TRUE
    ELSE IF ip_hdr.ip_v # 4 THEN TRUE
    ELSE ip_hdr.ip_hl > 5

ipDatagramShouldBeDropped(ip_hdr) ==
    IF ntohs(ip_hdr.ip_len) < 20 THEN TRUE
    ELSE IF ip_hdr.ip_v # 4 THEN TRUE
    ELSE IF ip_hdr.ip_hl > 5 THEN TRUE
    ELSE LET checksum == ip_hdr.ip_sum
             cleared  == [ip_hdr EXCEPT !.ip_sum = 0]
         IN  checksum # csum(cleared, 4 * cleared.ip_hl)

(***************************************************************************)
(* ipDatagramDestinedForMe: walk of sr->if_list.                           *)
(***************************************************************************)
RECURSIVE ifaceWalk(_, _, _)
ifaceWalk(if_list, dest_host_ip, i) ==
    IF i > Len(if_list) THEN FALSE
    ELSE IF if_list[i].ip = dest_host_ip THEN TRUE
    ELSE ifaceWalk(if_list, dest_host_ip, i + 1)

\* faulty variant: only the first interface is compared
ipDatagramDestinedForMe_first(router, dest_host_ip) ==
    Len(router.if_list) > 0 /\ router.if_list[1].ip = dest_host_ip

ipDatagramDestinedForMe(router, dest_host_ip) ==
    ifaceWalk(router.if_list, dest_host_ip, 1)

(***************************************************************************)
(* lookupRoutingTable: the result is the position of the entry in the      *)
(* table (the pointer the code returns), NULL when nothing matched.        *)
(***************************************************************************)
RECURSIVE rtWalk(_, _, _, _, _)
rtWalk(rt, dest_host_ip, i, longest_prefix, rt_entry_with_longest_prefix) ==
    IF i > Len(rt) THEN rt_entry_with_longest_prefix
    ELSE LET masked_rt_dest_ip   == And32(ntohl(rt[i].dest), ntohl(rt[i].mask))
             masked_dest_host_ip == And32(ntohl(dest_host_ip), ntohl(rt[i].mask))
         IN  IF masked_rt_dest_ip = masked_dest_host_ip
                /\ Geq32(masked_dest_host_ip, longest_prefix)
             THEN rtWalk(rt, dest_host_ip, i + 1, masked_dest_host_ip, i)
             ELSE rtWalk(rt, dest_host_ip, i + 1, longest_prefix,
                         rt_entry_with_longest_prefix)

\* faulty variant: the walk starts with a longest prefix of 1, so an entry whose
\* masked value is 0 is never chosen
lookupRoutingTable_nodefault(router, dest_host_ip) ==
    rtWalk(router.routing_table, dest_host_ip, 1, <<0, 1>>, NULL)

lookupRoutingTable(router, dest_host_ip) ==
    rtWalk(router.routing_table, dest_host_ip, 1, <<0, 0>>, NULL)

(***************************************************************************)
(* Addresses of buffers.  Heap addresses are 1..MaxBuf; a received frame   *)
(* (and the datagram inside it) and the ICMP message handed to the         *)
(* composer live outside the heap this file manages.                       *)
(***************************************************************************)
MaxBuf == 1

HeapAddrs == 1..MaxBuf

RxFrame == MaxBuf + 1

MsgAddr == MaxBuf + 2

(***************************************************************************)
(* The record of one call made during a run (history of the run).          *)
(***************************************************************************)
Call(op, ip, src, iface, len, ttl, mac, buf, frame, type) ==
    [op |-> op, ip |-> ip, src |-> src, iface |-> iface, len |-> len,
     ttl |-> ttl, mac |-> mac, buf |-> buf, frame |-> frame, type |-> type,
     ret |-> ""]

Log(st, c) == [st EXCEPT !.calls = Append(@, c)]

(***************************************************************************)
(* Collaborators of the IP layer (sr_if, ARP, Ethernet, IPDatagramBuffer,  *)
(* icmp): what ip.c asks of them.                                          *)
(***************************************************************************)
RECURSIVE ifaceByName(_, _, _)
ifaceByName(if_list, name, i) ==
    IF i > Len(if_list) THEN NULL
    ELSE IF if_list[i].name = name THEN i
    ELSE ifaceByName(if_list, name, i + 1)

\* position of the interface in sr->if_list, NULL when there is none
sr_get_interface(router, name) == ifaceByName(router.if_list, name, 1)

ifaceName(router, iface) ==
    IF iface = NULL THEN "" ELSE router.if_list[iface].name

sendEthFrameContainingIPDatagram(st, router, mac, eth_frame, iface, ip_datagram_len) ==
    Log(st, Call("sendEthFrameContainingIPDatagram", NoIP, NoIP,
                 ifaceName(router, iface), ip_datagram_len, st.pkt.ip_ttl,
                 mac, NULL, eth_frame, 0))

ethSendIPDatagram(st, router, mac, buf, iface, ip_datagram_len) ==
    Log(st, Call("ethSendIPDatagram", NoIP, NoIP,
                 ifaceName(router, iface), ip_datagram_len, st.pkt.ip_ttl,
                 mac, buf, NULL, 0))

bufferIPDatagram(st, next_hop_ip, buf, interface, ip_datagram_len) ==
    [Log(st, Call("bufferIPDatagram", next_hop_ip, NoIP, interface,
                  ip_datagram_len, st.pkt.ip_ttl, 0, buf, NULL, 0))
       EXCEPT !.buffered = Append(@, [next_hop_ip |-> next_hop_ip,
                                      interface |-> interface,
                                      len |-> ip_datagram_len,
                                      buf |-> buf,
                                      ip_src |-> st.pkt.ip_src])]

handleUndeliverableBufferedIPDatagram(st, router, next_hop_ip, iface) ==
    LET Other(e) == e.next_hop_ip # next_hop_ip
        Same(e)  == e.next_hop_ip = next_hop_ip
    IN  \* the len field of the record is the number of datagrams drained
        [Log(st, Call("handleUndeliverableBufferedIPDatagram", next_hop_ip, NoIP,
                      ifaceName(router, iface), Len(SelectSeq(st.buffered, Same)),
                      st.pkt.ip_ttl, 0, NULL, NULL, 0))
           EXCEPT !.buffered = SelectSeq(@, Other)]

icmp_reply(st, eth_frame, len, interface) ==
    Log(st, Call("icmp_reply", st.pkt.ip_src, st.pkt.ip_dst, interface, len,
                 st.pkt.ip_ttl, 0, NULL, eth_frame, 0))

(***************************************************************************)
(* ip_dec_ttl                                                              *)
(***************************************************************************)
\* faulty variant: the checksum is recomputed without clearing the field
ip_dec_ttl_stale(st) ==
    IF st.pkt.ip_ttl = 0 THEN [st EXCEPT !.aborted = TRUE]
    ELSE LET dec == [st.pkt EXCEPT !.ip_ttl = (@ + 255) % 256]
             upd == [dec EXCEPT !.ip_sum = csum(dec, 4 * dec.ip_hl)]
         IN  Log([st EXCEPT !.pkt = upd],
                 Call("ip_dec_ttl", NoIP, NoIP, "", 0, upd.ip_ttl, 0, NULL, NULL, 0))

ip_dec_ttl(st) ==
    IF st.pkt.ip_ttl = 0 THEN [st EXCEPT !.aborted = TRUE]
    ELSE LET dec == [st.pkt EXCEPT !.ip_ttl = (@ + 255) % 256, !.ip_sum = 0]
             upd == [dec EXCEPT !.ip_sum = csum(dec, 4 * dec.ip_hl)]
         IN  Log([st EXCEPT !.pkt = upd],
                 Call("ip_dec_ttl", NoIP, NoIP, "", 0, upd.ip_ttl, 0, NULL, NULL, 0))

(***************************************************************************)
(* sendIPDatagram.  res is what resolveMAC answers: its status and, on     *)
(* success, the link-layer address it wrote.                               *)
(***************************************************************************)
\* faulty variant: a resolved datagram is always wrapped in a new frame
sendIPDatagram_newframe(st, router, next_hop_ip, interface, buf, eth_frame, ip_datagram_len, res) ==
    LET s1 == ip_dec_ttl(st)
        iface == sr_get_interface(router, interface)
        s2 == Log(s1, [Call("resolveMAC", next_hop_ip, NoIP, ifaceName(router, iface),
                            0, s1.pkt.ip_ttl, res.mac, NULL, NULL, 0)
                         EXCEPT !.ret = res.status])
    IN  IF s1.aborted THEN s1
        ELSE IF res.status = ARP_RESOLVE_SUCCESS
             THEN ethSendIPDatagram(s2, router, res.mac, buf, iface, ip_datagram_len)
        ELSE IF res.status = ARP_REQUEST_SENT
             THEN bufferIPDatagram(s2, next_hop_ip, buf, interface, ip_datagram_len)
        ELSE IF res.status = ARP_RESOLVE_FAIL
             THEN handleUndeliverableBufferedIPDatagram(s2, router, next_hop_ip, iface)
        ELSE s2

sendIPDatagram(st, router, next_hop_ip, interface, buf, eth_frame, ip_datagram_len, res) ==
    LET s1 == ip_dec_ttl(st)
        iface == sr_get_interface(router, interface)
        s2 == Log(s1, [Call("resolveMAC", next_hop_ip, NoIP, ifaceName(router, iface),
                            0, s1.pkt.ip_ttl, res.mac, NULL, NULL, 0)
                         EXCEPT !.ret = res.status])
    IN  IF s1.aborted THEN s1
        ELSE IF res.status = ARP_RESOLVE_SUCCESS
             THEN IF eth_frame # NULL
                  THEN sendEthFrameContainingIPDatagram(s2, router, res.mac, eth_frame,
                                                        iface, ip_datagram_len)
                  ELSE ethSendIPDatagram(s2, router, res.mac, buf, iface, ip_datagram_len)
        ELSE IF res.status = ARP_REQUEST_SENT
             THEN bufferIPDatagram(s2, next_hop_ip, buf, interface, ip_datagram_len)
        ELSE IF res.status = ARP_RESOLVE_FAIL
             THEN handleUndeliverableBufferedIPDatagram(s2, router, next_hop_ip, iface)
        ELSE s2

(***************************************************************************)
(* forward                                                                 *)
(***************************************************************************)
\* faulty variant: the destination, not the gateway, is taken as next hop
forward_dst(st, router, eth_frame, buf, ip_datagram_len, res) ==
    LET rt_entry_with_longest_prefix == lookupRoutingTable(router, st.pkt.ip_dst)
        s1 == Log(st, Call("lookupRoutingTable", st.pkt.ip_dst, NoIP, "", 0,
                           st.pkt.ip_ttl, 0, NULL, NULL, 0))
    IN  IF rt_entry_with_longest_prefix # NULL
        THEN LET e == router.routing_table[rt_entry_with_longest_prefix]
             IN  sendIPDatagram(s1, router, st.pkt.ip_dst, e.interface, buf, eth_frame,
                                ip_datagram_len, res)
        ELSE s1

forward(st, router, eth_frame, buf, ip_datagram_len, res) ==
    LET rt_entry_with_longest_prefix == lookupRoutingTable(router, st.pkt.ip_dst)
        s1 == Log(st, Call("lookupRoutingTable", st.pkt.ip_dst, NoIP, "", 0,
                           st.pkt.ip_ttl, 0, NULL, NULL, 0))
    IN  IF rt_entry_with_longest_prefix # NULL
        THEN LET e == router.routing_table[rt_entry_with_longest_prefix]
             IN  sendIPDatagram(s1, router, e.gw, e.interface, buf, eth_frame,
                                ip_datagram_len, res)
        ELSE s1

(***************************************************************************)
(* processIPDatagramDestinedForMe                                          *)
(***************************************************************************)
\* faulty variant: every ICMP message is answered, whatever its type
processIPDatagramDestinedForMe_any(st, router, eth_frame, buf, ip_datagram_len) ==
    IF st.pkt.ip_p = IPPROTO_ICMP
    THEN icmp_reply(st, eth_frame, ip_datagram_len + ETHER_HDR_LEN, "eth0")
    ELSE st

processIPDatagramDestinedForMe(st, router, eth_frame, buf, ip_datagram_len) ==
    IF st.pkt.ip_p = IPPROTO_ICMP
    THEN IF st.pkt.icmp_type = ICMP_REQUEST
         THEN icmp_reply(st, eth_frame, ip_datagram_len + ETHER_HDR_LEN, "eth0")
         ELSE st
    ELSE st

(***************************************************************************)
(* handleIPDatagram                                                        *)
(***************************************************************************)
\* faulty variant: the TTL is already decremented during classification
handleIPDatagram_dec(st, router, eth_frame, buf, ip_datagram_len, res) ==
    IF ipDatagramShouldBeDropped(st.pkt)
    THEN [st EXCEPT !.branch = "dropped"]
    ELSE IF ipDatagramDestinedForMe(router, st.pkt.ip_dst)
    THEN processIPDatagramDestinedForMe([st EXCEPT !.branch = "local"], router,
                                        eth_frame, buf, ip_datagram_len)
    ELSE IF st.pkt.ip_ttl # 0
    THEN forward(ip_dec_ttl([st EXCEPT !.branch = "forward"]), router, eth_frame, buf,
                 ip_datagram_len, res)
    ELSE [st EXCEPT !.branch = "expired"]

\* faulty variant: the TTL is not looked at before forwarding
handleIPDatagram_nottl(st, router, eth_frame, buf, ip_datagram_len, res) ==
    IF ipDatagramShouldBeDropped(st.pkt)
    THEN [st EXCEPT !.branch = "dropped"]
    ELSE IF ipDatagramDestinedForMe(router, st.pkt.ip_dst)
    THEN processIPDatagramDestinedForMe([st EXCEPT !.branch = "local"], router,
                                        eth_frame, buf, ip_datagram_len)
    ELSE forward([st EXCEPT !.branch = "forward"], router, eth_frame, buf,
                 ip_datagram_len, res)

handleIPDatagram(st, router, eth_frame, buf, ip_datagram_len, res) ==
    IF ipDatagramShouldBeDropped(st.pkt)
    THEN [st EXCEPT !.branch = "dropped"]
    ELSE IF ipDatagramDestinedForMe(router, st.pkt.ip_dst)
    THEN processIPDatagramDestinedForMe([st EXCEPT !.branch = "local"], router,
                                        eth_frame, buf, ip_datagram_len)
    ELSE IF st.pkt.ip_ttl # 0
    THEN forward([st EXCEPT !.branch = "forward"], router, eth_frame, buf,
                 ip_datagram_len, res)
    ELSE [st EXCEPT !.branch = "expired"]

(***************************************************************************)
(* setupIPHeaderForICMP: every field but ip_sum is written.                *)
(***************************************************************************)
setupIPHeaderForICMP(ip_hdr, ip_datagram_total_len, src_ip, dest_ip) ==
    [ip_hdr EXCEPT !.ip_v = IPV4_VERSION,
                   !.ip_hl = DEFAULT_IP_HEADER_LEN,
                   !.ip_tos = DEFAULT_IP_TOS,
                   !.ip_len = htons(ip_datagram_total_len),
                   !.ip_id = htons(DEFAULT_IP_ID),
                   !.ip_off = htons(DEFAULT_IP_FRAGMENT),
                   !.ip_ttl = DEFAULT_IP_TTL,
                   !.ip_p = IPPROTO_ICMP,
                   !.ip_src = src_ip,
                   !.ip_dst = dest_ip]

(***************************************************************************)
(* sendIcmpMessageWithSrcIP.  addr is the address malloc returns and raw   *)
(* the (uninitialised) contents of the new buffer.                         *)
(***************************************************************************)
\* faulty variant: the buffer is allocated before the lookup and not released
\* when there is no route
sendIcmpMessageWithSrcIP_alloc(st, router, icmp_message, icmp_type, icmp_msg_len, dest_ip, src_ip, addr, raw, res) ==
    IF \/ icmp_msg_len < MIN_ICMP_MSG_LEN
       \/ icmp_message = NULL
       \/ src_ip = NoIP
       \/ dest_ip = NoIP
    THEN [st EXCEPT !.aborted = TRUE]
    ELSE
    LET rt_entry_with_longest_prefix == lookupRoutingTable(router, dest_ip)
        s0 == Log([st EXCEPT !.branch = "icmp"],
                  Call("sendIcmpMessageWithSrcIP", dest_ip, src_ip, "", icmp_msg_len,
                       0, 0, icmp_message, NULL, icmp_type))
        s1 == Log(s0, Call("lookupRoutingTable", dest_ip, NoIP, "", 0, 0, 0,
                           NULL, NULL, 0))
    IN  IF rt_entry_with_longest_prefix = NULL
        THEN Log([s1 EXCEPT !.branch = "icmp_noroute", !.heap[addr] = "live"],
                 Call("malloc", NoIP, NoIP, "", (20 + icmp_msg_len) % 65536, 0, 0,
                      addr, NULL, 0))
        ELSE
        LET ip_datagram_total_len == (20 + icmp_msg_len) % 65536
            s2 == Log([s1 EXCEPT !.heap[addr] = "live"],
                      Call("malloc", NoIP, NoIP, "", ip_datagram_total_len, 0, 0,
                           addr, NULL, 0))
            hdr == [setupIPHeaderForICMP(raw, ip_datagram_total_len, src_ip, dest_ip)
                      EXCEPT !.icmp_type = icmp_type]
            s3 == [s2 EXCEPT !.pkt = hdr, !.pkt0 = hdr]
            e  == router.routing_table[rt_entry_with_longest_prefix]
            s4 == sendIPDatagram(s3, router, e.gw, e.interface, addr, NULL,
                                 ip_datagram_total_len, res)
        IN  IF s4.aborted THEN s4
            ELSE Log([s4 EXCEPT !.heap[addr] = "freed"],
                     Call("free", NoIP, NoIP, "", 0, s4.pkt.ip_ttl, 0, addr, NULL, 0))

\* faulty variant: the buffer is not released when the datagram was enqueued
sendIcmpMessageWithSrcIP_keep(st, router, icmp_message, icmp_type, icmp_msg_len, dest_ip, src_ip, addr, raw, res) ==
    IF \/ icmp_msg_len < MIN_ICMP_MSG_LEN
       \/ icmp_message = NULL
       \/ src_ip = NoIP
       \/ dest_ip = NoIP
    THEN [st EXCEPT !.aborted = TRUE]
    ELSE
    LET rt_entry_with_longest_prefix == lookupRoutingTable(router, dest_ip)
        s0 == Log([st EXCEPT !.branch = "icmp"],
                  Call("sendIcmpMessageWithSrcIP", dest_ip, src_ip, "", icmp_msg_len,
                       0, 0, icmp_message, NULL, icmp_type))
        s1 == Log(s0, Call("lookupRoutingTable", dest_ip, NoIP, "", 0, 0, 0,
                           NULL, NULL, 0))
    IN  IF rt_entry_with_longest_prefix = NULL
        THEN [s1 EXCEPT !.branch = "icmp_noroute"]
        ELSE
        LET ip_datagram_total_len == (20 + icmp_msg_len) % 65536
            s2 == Log([s1 EXCEPT !.heap[addr] = "live"],
                      Call("malloc", NoIP, NoIP, "", ip_datagram_total_len, 0, 0,
                           addr, NULL, 0))
            hdr == [setupIPHeaderForICMP(raw, ip_datagram_total_len, src_ip, dest_ip)
                      EXCEPT !.icmp_type = icmp_type]
            s3 == [s2 EXCEPT !.pkt = hdr, !.pkt0 = hdr]
            e  == router.routing_table[rt_entry_with_longest_prefix]
            s4 == sendIPDatagram(s3, router, e.gw, e.interface, addr, NULL,
                                 ip_datagram_total_len, res)
        IN  IF s4.aborted \/ res.status = ARP_REQUEST_SENT THEN s4
            ELSE Log([s4 EXCEPT !.heap[addr] = "freed"],
                     Call("free", NoIP, NoIP, "", 0, s4.pkt.ip_ttl, 0, addr, NULL, 0))

sendIcmpMessageWithSrcIP(st, router, icmp_message, icmp_type, icmp_msg_len, dest_ip, src_ip, addr, raw, res) ==
    IF \/ icmp_msg_len < MIN_ICMP_MSG_LEN
       \/ icmp_message = NULL
       \/ src_ip = NoIP
       \/ dest_ip = NoIP
    THEN [st EXCEPT !.aborted = TRUE]
    ELSE
    LET rt_entry_with_longest_prefix == lookupRoutingTable(router, dest_ip)
        s0 == Log([st EXCEPT !.branch = "icmp"],
                  Call("sendIcmpMessageWithSrcIP", dest_ip, src_ip, "", icmp_msg_len,
                       0, 0, icmp_message, NULL, icmp_type))
        s1 == Log(s0, Call("lookupRoutingTable", dest_ip, NoIP, "", 0, 0, 0,
                           NULL, NULL, 0))
    IN  IF rt_entry_with_longest_prefix = NULL
        THEN [s1 EXCEPT !.branch = "icmp_noroute"]
        ELSE
        LET ip_datagram_total_len == (20 + icmp_msg_len) % 65536
            s2 == Log([s1 EXCEPT !.heap[addr] = "live"],
                      Call("malloc", NoIP, NoIP, "", ip_datagram_total_len, 0, 0,
                           addr, NULL, 0))
            hdr == [setupIPHeaderForICMP(raw, ip_datagram_total_len, src_ip, dest_ip)
                      EXCEPT !.icmp_type = icmp_type]
            s3 == [s2 EXCEPT !.pkt = hdr, !.pkt0 = hdr]
            e  == router.routing_table[rt_entry_with_longest_prefix]
            s4 == sendIPDatagram(s3, router, e.gw, e.interface, addr, NULL,
                                 ip_datagram_total_len, res)
        IN  IF s4.aborted THEN s4
            ELSE Log([s4 EXCEPT !.heap[addr] = "freed"],
                     Call("free", NoIP, NoIP, "", 0, s4.pkt.ip_ttl, 0, addr, NULL, 0))

(***************************************************************************)
(* sendIcmpMessage: the source is the address of the first interface.      *)
(***************************************************************************)
sendIcmpMessage(st, router, icmp_message, icmp_type, icmp_msg_len, dest_ip, addr, raw, res) ==
    IF \/ icmp_msg_len < MIN_ICMP_MSG_LEN
       \/ icmp_message = NULL
       \/ dest_ip = NoIP
       \/ Len(router.if_list) = 0
    THEN [st EXCEPT !.aborted = TRUE]
    ELSE sendIcmpMessageWithSrcIP(
             Log(st, Call("sendIcmpMessage", dest_ip, NoIP, "", icmp_msg_len, 0, 0,
                          icmp_message, NULL, icmp_type)),
             router, icmp_message, icmp_type, icmp_msg_len,
             dest_ip, router.if_list[1].ip, addr, raw, res)

(***************************************************************************)
(* The router instance and the inputs of the model.                        *)
(***************************************************************************)
IfList ==
    << [name |-> "eth0", ip |-> IP(10, 0, 1, 1)],
       [name |-> "eth1", ip |-> IP(10, 0, 2, 1)] >>

Route(dest, mask, gw, interface) ==
    [dest |-> dest, mask |-> mask, gw |-> gw, interface |-> interface]

Net8 == Route(IP(10, 0, 0, 0), IP(255, 0, 0, 0), IP(10, 0, 2, 2), "eth1")

Net24 == Route(IP(10, 0, 1, 0), IP(255, 255, 255, 0), IP(10, 0, 1, 2), "eth0")

Net24Zero == Route(IP(10, 0, 0, 0), IP(255, 255, 255, 0), IP(10, 0, 1, 3), "eth0")

Default == Route(IP(0, 0, 0, 0), IP(0, 0, 0, 0), IP(10, 0, 2, 3), "eth1")

RoutingTables == { <<Net8, Net24>>, <<Net24, Default>> }

Sender1 == IP(10, 0, 2, 9)

Sender2 == IP(192, 168, 1, 7)

LocalDests == { IP(10, 0, 1, 1), IP(10, 0, 2, 1) }

RemoteDests == { IP(10, 0, 1, 5), IP(10, 0, 2, 5), IP(192, 168, 1, 1) }

Hdr(v, hl, len, ttl, p, type, src, dst) ==
    [ip_v |-> v, ip_hl |-> hl, ip_tos |-> 0, ip_len |-> htons(len),
     ip_id |-> htons(0), ip_off |-> htons(0), ip_ttl |-> ttl, ip_p |-> p,
     ip_sum |-> 0, ip_src |-> src, ip_dst |-> dst, icmp_type |-> type]

\* the header with the checksum its sender computes (over at most 20 bytes)
Sealed(h) ==
    LET z == [h EXCEPT !.ip_sum = 0]
    IN  [z EXCEPT !.ip_sum = csum(z, 4 * (IF z.ip_hl > 5 THEN 5 ELSE z.ip_hl))]

WellFormed ==
    { Sealed(Hdr(4, 5, 28, t, IPPROTO_ICMP, ICMP_REQUEST, Sender1, d)) :
        t \in {0, 1, 5}, d \in LocalDests \cup RemoteDests }
    \cup
    { Sealed(Hdr(4, 5, 28, 5, IPPROTO_ICMP, 0, Sender1, d)) : d \in LocalDests }
    \cup
    { Sealed(Hdr(4, 5, 28, 5, IPPROTO_TCP, ICMP_REQUEST, Sender1, d)) : d \in LocalDests }
    \cup
    { Sealed(Hdr(4, 5, 28, t, IPPROTO_TCP, 0, Sender2, IP(10, 0, 1, 5))) : t \in {1, 2} }

Malformed ==
    UNION { { [Sealed(Hdr(4, 5, 28, t, IPPROTO_ICMP, ICMP_REQUEST, Sender1, d))
                 EXCEPT !.ip_sum = (@ + 1) % 65536],
              Sealed(Hdr(6, 5, 28, t, IPPROTO_ICMP, ICMP_REQUEST, Sender1, d)),
              Sealed(Hdr(4, 6, 28, t, IPPROTO_ICMP, ICMP_REQUEST, Sender1, d)),
              Sealed(Hdr(4, 5, 19, t, IPPROTO_ICMP, ICMP_REQUEST, Sender1, d)),
              Sealed(Hdr(4, 4, 28, t, IPPROTO_ICMP, ICMP_REQUEST, Sender1, d)),
              [Sealed(Hdr(4, 4, 28, t, IPPROTO_ICMP, ICMP_REQUEST, Sender1, d))
                 EXCEPT !.ip_sum = (@ + 1) % 65536] } :
            t \in {0, 5}, d \in { IP(10, 0, 1, 1), IP(10, 0, 1, 5) } }

ReceivedDatagrams == WellFormed \cup Malformed

RxLens == { 28 }

MACs == { 1, 2 }

\* what resolveMAC may answer; a request is only left pending while the
\* queue has room
Resolutions(q) ==
    { [status |-> ARP_RESOLVE_SUCCESS, mac |-> m] : m \in MACs }
    \cup { [status |-> ARP_RESOLVE_FAIL, mac |-> 0] }
    \cup (IF Len(q) < MaxQueue
          THEN { [status |-> ARP_REQUEST_SENT, mac |-> 0] } ELSE {})

IcmpArgs(msg, type, len, dest, src) ==
    [icmp_message |-> msg, icmp_type |-> type, icmp_msg_len |-> len, dest_ip |-> dest,
     src_ip |-> src]

\* calls of the composer that respect its preconditions
ValidIcmpCalls ==
    { IcmpArgs(MsgAddr, t, MIN_ICMP_MSG_LEN, d, IP(10, 0, 2, 1)) :
        t \in {0, ICMP_TIME_EXCEEDED}, d \in {Sender1, Sender2} }

\* calls that break one precondition each
InvalidIcmpCalls ==
    { IcmpArgs(NULL, 0, MIN_ICMP_MSG_LEN, Sender1, IP(10, 0, 2, 1)),
      IcmpArgs(MsgAddr, 0, MIN_ICMP_MSG_LEN - 1, Sender1, IP(10, 0, 2, 1)),
      IcmpArgs(MsgAddr, 0, MIN_ICMP_MSG_LEN, NoIP, IP(10, 0, 2, 1)),
      IcmpArgs(MsgAddr, 0, MIN_ICMP_MSG_LEN, Sender1, NoIP) }

\* what a freshly allocated buffer may hold
RawBuffers ==
    { Hdr(0, 0, 0, 0, 0, 0, NoIP, NoIP),
      [Hdr(15, 15, 65535, 255, 255, 255, IP(255, 255, 255, 255), IP(255, 255, 255, 255))
         EXCEPT !.ip_sum = 65535, !.ip_tos = 255] }

\* malloc returns an address that is not live
malloc(h) == CHOOSE a \in HeapAddrs : h[a] # "live" /\ \A b \in HeapAddrs : h[b] # "live" => a <= b

NoDatagram == Hdr(0, 0, 0, 0, 0, 0, NoIP, NoIP)

NoRun == [entry |-> "none", eth_frame |-> NULL, icmp_message |-> NULL, len |-> 0,
          dest_ip |-> NoIP,
          src_ip |-> NoIP, type |-> 0]

(***************************************************************************)
(* The state machine: one action per entry point of ip.c.                  *)
(***************************************************************************)
Init ==
    /\ sr \in { [if_list |-> IfList, routing_table |-> t] : t \in RoutingTables }
    /\ buffered = <<>>
    /\ heap = [a \in HeapAddrs |-> "unused"]
    /\ calls = <<>>
    /\ ip_datagram = NoDatagram
    /\ ip_datagram0 = NoDatagram
    /\ run = NoRun
    /\ branch = "none"
    /\ aborted = FALSE
    /\ rt_dest = NoIP
    /\ rt_result = NULL

Start(d) ==
    [pkt |-> d, pkt0 |-> d, calls |-> <<>>, buffered |-> buffered, heap |-> heap,
     aborted |-> FALSE, branch |-> "none"]

Commit(st, r) ==
    /\ buffered' = st.buffered
    /\ heap' = st.heap
    /\ calls' = st.calls
    /\ ip_datagram' = st.pkt
    /\ ip_datagram0' = st.pkt0
    /\ branch' = st.branch
    /\ aborted' = st.aborted
    /\ run' = r
    /\ UNCHANGED <<sr, rt_dest, rt_result>>

HandleIPDatagram ==
    /\ ~aborted
    /\ \E d \in ReceivedDatagrams, len \in RxLens, res \in Resolutions(buffered) :
          Commit(handleIPDatagram(Start(d), sr, RxFrame, RxFrame, len, res),
                 [NoRun EXCEPT !.entry = "handleIPDatagram", !.eth_frame = RxFrame,
                               !.len = len])

\* the inputs of one call of the composer: its arguments, the contents of
\* the buffer malloc returns and the answer of resolveMAC
IcmpInputs(q) ==
    { [a |-> a, raw |-> raw, res |-> res] :
        a \in ValidIcmpCalls, raw \in RawBuffers, res \in Resolutions(q) }
    \cup
    { [a |-> a, raw |-> NoDatagram, res |-> [status |-> ARP_RESOLVE_FAIL, mac |-> 0]] :
        a \in InvalidIcmpCalls }

SendIcmpMessage ==
    /\ ~aborted
    /\ \E in \in IcmpInputs(buffered) :
          /\ in.a.src_ip # NoIP
          /\ Commit(sendIcmpMessage(Start(NoDatagram), sr, in.a.icmp_message,
                                    in.a.icmp_type, in.a.icmp_msg_len, in.a.dest_ip,
                                    malloc(heap), in.raw, in.res),
                    [NoRun EXCEPT !.entry = "sendIcmpMessage",
                                  !.icmp_message = in.a.icmp_message,
                                  !.len = in.a.icmp_msg_len, !.dest_ip = in.a.dest_ip,
                                  !.src_ip = sr.if_list[1].ip, !.type = in.a.icmp_type])

SendIcmpMessageWithSrcIP ==
    /\ ~aborted
    /\ \E in \in IcmpInputs(buffered) :
          Commit(sendIcmpMessageWithSrcIP(Start(NoDatagram), sr, in.a.icmp_message,
                                          in.a.icmp_type, in.a.icmp_msg_len,
                                          in.a.dest_ip, in.a.src_ip, malloc(heap),
                                          in.raw, in.res),
                 [NoRun EXCEPT !.entry = "sendIcmpMessageWithSrcIP",
                               !.icmp_message = in.a.icmp_message,
                               !.len = in.a.icmp_msg_len, !.dest_ip = in.a.dest_ip,
                               !.src_ip = in.a.src_ip, !.type = in.a.icmp_type])

Next == HandleIPDatagram \/ SendIcmpMessage \/ SendIcmpMessageWithSrcIP

Spec == Init /\ [][Next]_vars

(***************************************************************************)
(* The routing lookup on its own: any table of at most MaxRoutes entries,  *)
(* in any order, any destination.                                          *)
(***************************************************************************)
RouteEntries == { Net8, Net24, Net24Zero, Default }

LookupTables == UNION { [1..k -> RouteEntries] : k \in 0..MaxRoutes }

LookupDests == { IP(10, 0, 1, 5), IP(10, 0, 2, 5), IP(10, 0, 0, 5), IP(192, 168, 1, 1) }

InitLookup ==
    /\ sr \in { [if_list |-> IfList, routing_table |-> t] : t \in LookupTables }
    /\ buffered = <<>>
    /\ heap = [a \in HeapAddrs |-> "unused"]
    /\ calls = <<>>
    /\ ip_datagram = NoDatagram
    /\ ip_datagram0 = NoDatagram
    /\ run = NoRun
    /\ branch = "none"
    /\ aborted = FALSE
    /\ rt_dest = NoIP
    /\ rt_result = NULL

Lookup ==
    \E d \in LookupDests :
       /\ rt_dest' = d
       /\ rt_result' = lookupRoutingTable(sr, d)
       /\ run' = [NoRun EXCEPT !.entry = "lookupRoutingTable"]
       /\ UNCHANGED <<sr, buffered, heap, calls, ip_datagram, ip_datagram0, branch,
                      aborted>>

NextLookup == Lookup

SpecLookup == InitLookup /\ [][NextLookup]_vars

(***************************************************************************)
(* Replay of a queued datagram.  The collaborator that holds the pending   *)
(* queue takes the entry out when the resolution completes and runs the    *)
(* datagram through sendIPDatagram again; the entry holds the pointer it   *)
(* was given, so the header replayed is the header as sendIPDatagram left  *)
(* it.  The receive buffer holds one datagram: the replay modelled is the  *)
(* one of the entry the last run enqueued, whose datagram is still there.  *)
(* ip_datagram0 stays the header as it was received.                       *)
(***************************************************************************)
Replay ==
    /\ ~aborted
    /\ run.entry = "handleIPDatagram"
    /\ Len(calls) > 0
    /\ calls[Len(calls)].op = "bufferIPDatagram"
    /\ \E mac \in MACs :
          LET e  == buffered[Len(buffered)]
              st == [Start(ip_datagram) EXCEPT
                        !.pkt0 = ip_datagram0,
                        !.buffered = SubSeq(buffered, 1, Len(buffered) - 1),
                        !.branch = "replay"]
          IN  Commit(sendIPDatagram(st, sr, e.next_hop_ip, e.interface, e.buf, NULL,
                                    e.len,
                                    [status |-> ARP_RESOLVE_SUCCESS, mac |-> mac]),
                     [NoRun EXCEPT !.entry = "replay", !.len = e.len])

NextReplay == HandleIPDatagram \/ Replay

SpecReplay == Init /\ [][NextReplay]_vars

(***************************************************************************)
(* Vocabulary of the properties.                                           *)
(***************************************************************************)
CallIdx == 1..Len(calls)

CountCalls(ops) == Cardinality({ i \in CallIdx : calls[i].op \in ops })

TransmitOps == { "sendEthFrameContainingIPDatagram", "ethSendIPDatagram" }

EnqueueOps == { "bufferIPDatagram" }

DrainOps == { "handleUndeliverableBufferedIPDatagram" }

ResolveOps == { "resolveMAC" }

LookupOps == { "lookupRoutingTable" }

DecTtlOps == { "ip_dec_ttl" }

IcmpOps == { "sendIcmpMessage", "sendIcmpMessageWithSrcIP" }

DispatcherOps == DecTtlOps \cup ResolveOps \cup TransmitOps \cup EnqueueOps \cup DrainOps

Received == run.entry = "handleIPDatagram"

Composed == run.entry \in { "sendIcmpMessage", "sendIcmpMessageWithSrcIP" }

\* the destination is the address of some interface of the router
IsLocal(dst) == \E i \in 1..Len(sr.if_list) : sr.if_list[i].ip = dst

\* the four reasons the validator has to reject a header
Rejected(h) ==
    \/ h.ip_len[1] * 256 + h.ip_len[2] < 20
    \/ h.ip_v # 4
    \/ h.ip_hl > 5
    \/ h.ip_sum # csum([h EXCEPT !.ip_sum = 0], 4 * h.ip_hl)

\* the resolution request of the last run got this answer
Answered(status) ==
    \E i \in CallIdx : calls[i].op = "resolveMAC" /\ calls[i].ret = status

\* the route the last run selected (its position in the table)
SelectedRoute == lookupRoutingTable(sr, ip_datagram0.ip_dst)

\* the length of the datagram the last run handed to the dispatcher
DispatchedLen == IF Received THEN run.len ELSE 20 + run.len

\* some ICMP message of this type is generated toward dest during the run
IcmpGenerated(type, dest) ==
    \E i \in CallIdx :
       calls[i].op \in IcmpOps /\ calls[i].type = type /\ calls[i].ip = dest

(***************************************************************************)
(* C1: a datagram that passes validation takes the local-delivery branch   *)
(* when its destination is the address of an interface (whatever its TTL   *)
(* and the routing table), else the forward branch when its TTL is not 0,  *)
(* else the expired branch; a locally destined datagram reaches neither    *)
(* the routing lookup nor the dispatcher.                                  *)
(***************************************************************************)
C1_Classification ==
    (Received /\ ~Rejected(ip_datagram0)) =>
       /\ branch = (IF IsLocal(ip_datagram0.ip_dst) THEN "local"
                    ELSE IF ip_datagram0.ip_ttl # 0 THEN "forward"
                    ELSE "expired")
       /\ IsLocal(ip_datagram0.ip_dst) =>
             CountCalls(LookupOps \cup DispatcherOps) = 0
       /\ branch = "forward" => CountCalls(LookupOps) = 1
       /\ branch = "expired" => CountCalls(LookupOps \cup DispatcherOps) = 0

C1_Witness ==
    /\ Received /\ ~Rejected(ip_datagram0)
    /\ branch = "local"
    /\ ip_datagram0.ip_ttl = 0
    /\ ip_datagram0.ip_dst = sr.if_list[2].ip
    /\ SelectedRoute # NULL

C3_Pending ==
    Answered(ARP_REQUEST_SENT) =>
       /\ CountCalls(TransmitOps) = 0
       /\ CountCalls(DrainOps) = 0
       /\ CountCalls(EnqueueOps) = 1
       /\ CountCalls(ResolveOps) = 1
       /\ \A i, j \in CallIdx :
             (calls[i].op = "resolveMAC" /\ calls[j].op = "bufferIPDatagram") =>
                /\ i < j
                /\ calls[j].ip = calls[i].ip
                /\ calls[j].ip = sr.routing_table[SelectedRoute].gw
                /\ calls[j].iface = sr.routing_table[SelectedRoute].interface
                /\ calls[j].len = DispatchedLen
       /\ Len(buffered) > 0
       /\ buffered[Len(buffered)].next_hop_ip = sr.routing_table[SelectedRoute].gw

C3_Witness ==
    /\ Received
    /\ Answered(ARP_REQUEST_SENT)
    /\ Len(buffered) = 2
    /\ buffered[1].next_hop_ip # buffered[2].next_hop_ip
    /\ sr.routing_table[SelectedRoute].gw # ip_datagram0.ip_dst

(***************************************************************************)
(* C4: when resolveMAC answers with a link-layer address, the dispatch     *)
(* makes exactly one transmit call, with that address, on the interface of *)
(* the selected route, and neither enqueues nor drains; the call reuses    *)
(* the received frame exactly when a frame was supplied (a forwarded       *)
(* datagram) and builds a new frame exactly when none was (a locally built *)
(* ICMP datagram).                                                         *)
(***************************************************************************)
C4_Resolved ==
    \A i \in CallIdx :
       (calls[i].op = "resolveMAC" /\ calls[i].ret = ARP_RESOLVE_SUCCESS) =>
          /\ CountCalls(TransmitOps) = 1
          /\ CountCalls(EnqueueOps) = 0
          /\ CountCalls(DrainOps) = 0
          /\ \A j \in CallIdx :
                calls[j].op \in TransmitOps =>
                   /\ i < j
                   /\ calls[j].mac = calls[i].mac
                   /\ calls[j].iface = sr.routing_table[SelectedRoute].interface
                   /\ calls[j].len = DispatchedLen
                   /\ (calls[j].op = "sendEthFrameContainingIPDatagram")
                         <=> (run.eth_frame # NULL)
                   /\ (calls[j].op = "ethSendIPDatagram") <=> (run.eth_frame = NULL)
                   /\ (run.eth_frame # NULL) <=> Received
                   /\ Received => calls[j].frame = run.eth_frame

C4_Witness ==
    /\ Composed
    /\ Answered(ARP_RESOLVE_SUCCESS)
    /\ \E j \in CallIdx : calls[j].op = "ethSendIPDatagram" /\ calls[j].mac = 2

(***************************************************************************)
(* C5: when resolveMAC answers that resolution failed while N datagrams    *)
(* are queued toward the same next hop, the dispatch neither transmits nor *)
(* enqueues, drains the queue of that next hop, and a destination-         *)
(* unreachable ICMP message is generated toward the sender of the failing  *)
(* datagram and of each of the N drained ones.  (The record of the drain   *)
(* call carries N in its len field.)                                       *)
(***************************************************************************)
C5_FailedSurfacesUnreachable ==
    (Received /\ Answered(ARP_RESOLVE_FAIL)) =>
       /\ CountCalls(TransmitOps) = 0
       /\ CountCalls(EnqueueOps) = 0
       /\ CountCalls(DrainOps) = 1
       /\ \A k \in 1..Len(buffered) :
             buffered[k].next_hop_ip # sr.routing_table[SelectedRoute].gw
       /\ IcmpGenerated(ICMP_DEST_UNREACH, ip_datagram0.ip_src)
       /\ \A j \in CallIdx :
             calls[j].op \in DrainOps =>
                Cardinality({ i \in CallIdx : /\ calls[i].op \in IcmpOps
                                              /\ calls[i].type = ICMP_DEST_UNREACH })
                   >= 1 + calls[j].len

(***************************************************************************)
(* C6: a run of handleIPDatagram decrements the TTL exactly once when it   *)
(* reaches the dispatcher (valid, not local, TTL not 0, route found) and   *)
(* never otherwise; the decrement comes after the routing lookup, which    *)
(* sees the TTL as received, and before the resolution request.            *)
(***************************************************************************)
C6_TtlDecrementedOnce ==
    Received =>
       LET reaches == /\ ~Rejected(ip_datagram0)
                      /\ ~IsLocal(ip_datagram0.ip_dst)
                      /\ ip_datagram0.ip_ttl # 0
                      /\ SelectedRoute # NULL
       IN  /\ CountCalls(DecTtlOps) = (IF reaches THEN 1 ELSE 0)
           /\ CountCalls(ResolveOps) = (IF reaches THEN 1 ELSE 0)
           /\ ip_datagram.ip_ttl =
                 (IF reaches THEN ip_datagram0.ip_ttl - 1 ELSE ip_datagram0.ip_ttl)
           /\ \A i \in CallIdx :
                 calls[i].op \in LookupOps => calls[i].ttl = ip_datagram0.ip_ttl
           /\ reaches =>
                 \E i, j, k \in CallIdx :
                    /\ i < j /\ j < k
                    /\ calls[i].op = "lookupRoutingTable"
                    /\ calls[j].op = "ip_dec_ttl"
                    /\ calls[k].op = "resolveMAC"
                    /\ calls[k].ttl = ip_datagram0.ip_ttl - 1

C6_Witness ==
    /\ Received
    /\ branch = "forward"
    /\ ip_datagram0.ip_ttl = 5
    /\ ip_datagram.ip_ttl = 4
    /\ CountCalls(DecTtlOps) = 1
    /\ CountCalls(TransmitOps) = 1

(***************************************************************************)
(* C7: a valid datagram received with TTL 1 for a destination that is not  *)
(* local has a time-exceeded ICMP message generated toward its source and  *)
(* is never forwarded (no dispatch, transmit or enqueue).                  *)
(***************************************************************************)
C7_TtlOneNotForwarded ==
    (/\ Received /\ ~Rejected(ip_datagram0)
     /\ ip_datagram0.ip_ttl = 1
     /\ ~IsLocal(ip_datagram0.ip_dst)) =>
       /\ IcmpGenerated(ICMP_TIME_EXCEEDED, ip_datagram0.ip_src)
       /\ CountCalls(DispatcherOps) = 0

(***************************************************************************)
(* C8: a valid datagram received with TTL 0 for a destination that is not  *)
(* local has exactly one time-exceeded ICMP message generated toward its   *)
(* source and is not handed to the dispatcher.                             *)
(***************************************************************************)
C8_ExpiredSurfacesTimeExceeded ==
    (/\ Received /\ ~Rejected(ip_datagram0)
     /\ ip_datagram0.ip_ttl = 0
     /\ ~IsLocal(ip_datagram0.ip_dst)) =>
       /\ Cardinality({ i \in CallIdx : /\ calls[i].op \in IcmpOps
                                        /\ calls[i].type = ICMP_TIME_EXCEEDED
                                        /\ calls[i].ip = ip_datagram0.ip_src }) = 1
       /\ CountCalls(DispatcherOps) = 0

\* the entry matches the destination: both agree under the mask of the entry
Matches(e, dst) ==
    And32(ntohl(dst), ntohl(e.mask)) = And32(ntohl(e.dest), ntohl(e.mask))

MatchingEntries(dst) ==
    { i \in 1..Len(sr.routing_table) : Matches(sr.routing_table[i], dst) }

(***************************************************************************)
(* C9: a valid datagram with TTL not 0 for a destination that is not local *)
(* and that no routing entry matches is not handed to the dispatcher (TTL  *)
(* unchanged, no resolution request, no transmit, no enqueue) and has a    *)
(* destination-unreachable ICMP message generated toward its source.       *)
(***************************************************************************)
C9_NoRouteSurfacesUnreachable ==
    (/\ Received /\ ~Rejected(ip_datagram0)
     /\ ip_datagram0.ip_ttl # 0
     /\ ~IsLocal(ip_datagram0.ip_dst)
     /\ MatchingEntries(ip_datagram0.ip_dst) = {}) =>
       /\ CountCalls(DispatcherOps) = 0
       /\ ip_datagram.ip_ttl = ip_datagram0.ip_ttl
       /\ IcmpGenerated(ICMP_DEST_UNREACH, ip_datagram0.ip_src)

(***************************************************************************)
(* C10: the routing lookup returns the most specific matching route: for   *)
(* every table, in any order, and every destination, when some entry       *)
(* matches the result is a matching entry whose mask is the longest among  *)
(* the matching entries, and when none matches the result is none.         *)
(***************************************************************************)
C10_LongestPrefixMatch ==
    (run.entry = "lookupRoutingTable") =>
       IF MatchingEntries(rt_dest) = {}
       THEN rt_result = NULL
       ELSE /\ rt_result \in MatchingEntries(rt_dest)
            /\ \A i \in MatchingEntries(rt_dest) :
                  Geq32(ntohl(sr.routing_table[rt_result].mask),
                        ntohl(sr.routing_table[i].mask))

C12_ReturnsNormally ==
    Received =>
       /\ ~aborted
       /\ CountCalls(ResolveOps) = CountCalls(DecTtlOps)
       /\ \A i \in CallIdx :
             calls[i].op = "ip_dec_ttl" =>
                /\ calls[i].ttl >= 0
                /\ calls[i].ttl = ip_datagram0.ip_ttl - 1

C12_Witness ==
    /\ Received /\ ~aborted
    /\ ip_datagram0.ip_ttl = 1
    /\ ip_datagram.ip_ttl = 0
    /\ CountCalls(ResolveOps) = 1

(***************************************************************************)
(* C13: after the first step of the dispatcher on a datagram with TTL      *)
(* t > 0 the TTL is t - 1, nothing else but the checksum has changed, and  *)
(* the checksum is the one computed over the 4 * ip_hl bytes of the new    *)
(* header with the checksum field cleared, so the header passes the        *)
(* checksum verification of the validator.                                 *)
(***************************************************************************)
C13_DecrementKeepsChecksum ==
    (~aborted /\ CountCalls(DecTtlOps) = 1) =>
       /\ ip_datagram0.ip_ttl > 0
       /\ ip_datagram.ip_ttl = ip_datagram0.ip_ttl - 1
       /\ ip_datagram =
             [ip_datagram0 EXCEPT !.ip_ttl = ip_datagram.ip_ttl,
                                  !.ip_sum = ip_datagram.ip_sum]
       /\ ip_datagram.ip_sum =
             csum([ip_datagram EXCEPT !.ip_sum = 0], 4 * ip_datagram.ip_hl)
       /\ ~Rejected(ip_datagram)

C13_Witness ==
    /\ Received /\ ~aborted
    /\ CountCalls(DecTtlOps) = 1
    /\ ip_datagram0.ip_ttl = 5
    /\ ip_datagram.ip_ttl = 4
    /\ ip_datagram.ip_sum # ip_datagram0.ip_sum

\* the composer is called with arguments that satisfy its assertions
ValidComposerCall ==
    /\ Composed
    /\ run.icmp_message # NULL
    /\ run.len >= MIN_ICMP_MSG_LEN
    /\ run.dest_ip # NoIP
    /\ run.src_ip # NoIP

(***************************************************************************)
(* C14: a call of the composer with valid arguments for a destination no   *)
(* routing entry matches does nothing: no buffer is allocated, nothing is  *)
(* dispatched, resolved, transmitted, enqueued or drained, and the call    *)
(* returns.                                                                *)
(***************************************************************************)
C14_NoRouteNoOp ==
    (ValidComposerCall /\ MatchingEntries(run.dest_ip) = {}) =>
       /\ ~aborted
       /\ CountCalls({"malloc", "free"} \cup DispatcherOps) = 0
       /\ \A a \in HeapAddrs : heap[a] # "live"
       /\ ip_datagram = NoDatagram

C14_Witness ==
    /\ ValidComposerCall
    /\ run.entry = "sendIcmpMessage"
    /\ MatchingEntries(run.dest_ip) = {}
    /\ branch = "icmp_noroute"
    /\ Len(buffered) > 0

(***************************************************************************)
(* C15: every buffer the composer allocates is released exactly once,      *)
(* after the dispatcher has returned and as the last thing the composer    *)
(* does, whatever resolveMAC answered: no buffer is live between runs and  *)
(* none is released twice.                                                 *)
(***************************************************************************)
C15_ReleasedOnce ==
    /\ \A a \in HeapAddrs : heap[a] # "live"
    /\ CountCalls({"free"}) = CountCalls({"malloc"})
    /\ \A i \in CallIdx :
          calls[i].op = "malloc" =>
             /\ calls[Len(calls)].op = "free"
             /\ calls[Len(calls)].buf = calls[i].buf
             /\ Cardinality({ j \in CallIdx : /\ calls[j].op = "free"
                                              /\ calls[j].buf = calls[i].buf }) = 1
             /\ CountCalls(ResolveOps) = 1
             /\ \A k \in CallIdx :
                   calls[k].op \in DispatcherOps => (i < k /\ k < Len(calls))

C15_Witness ==
    /\ Composed
    /\ Answered(ARP_REQUEST_SENT)
    /\ CountCalls({"malloc"}) = 1
    /\ CountCalls({"free"}) = 1
    /\ CountCalls(EnqueueOps) = 1

(***************************************************************************)
(* C16: no buffer that an entry of the pending queue refers to has been    *)
(* released.                                                               *)
(***************************************************************************)
C16_QueuedNotFreed ==
    \A k \in 1..Len(buffered) :
       buffered[k].buf \in HeapAddrs => heap[buffered[k].buf] # "freed"

(***************************************************************************)
(* C18: every header the validator accepts is a fixed 20-byte IPv4 header: *)
(* version 4, total length at least 20, header length exactly 5 words.     *)
(***************************************************************************)
C18_AcceptedIsFixedHeader ==
    (Received /\ ~ipDatagramShouldBeDropped(ip_datagram0)) =>
       /\ branch # "dropped"
       /\ ip_datagram0.ip_v = IPV4_VERSION
       /\ ntohs(ip_datagram0.ip_len) >= 20
       /\ ip_datagram0.ip_hl = DEFAULT_IP_HEADER_LEN

\* the arguments the composer was entered with, as the call log has them
ComposerEntry == calls[CHOOSE i \in CallIdx : calls[i].op = "sendIcmpMessageWithSrcIP"]

(***************************************************************************)
(* C19: the header the composer has built, as it stands before it is       *)
(* handed to the dispatcher, has version 4, header length 5, protocol      *)
(* ICMP, the given total length, source and destination, the default TTL,  *)
(* and a checksum field equal to the checksum of that header, whatever the *)
(* buffer held before.                                                     *)
(***************************************************************************)
C19_ComposedHeader ==
    (Composed /\ CountCalls({"malloc"}) = 1) =>
       /\ ip_datagram0.ip_v = IPV4_VERSION
       /\ ip_datagram0.ip_hl = DEFAULT_IP_HEADER_LEN
       /\ ip_datagram0.ip_p = IPPROTO_ICMP
       /\ ntohs(ip_datagram0.ip_len) = 20 + ComposerEntry.len
       /\ ip_datagram0.ip_src = ComposerEntry.src
       /\ ip_datagram0.ip_dst = ComposerEntry.ip
       /\ ip_datagram0.ip_ttl = DEFAULT_IP_TTL
       /\ ip_datagram0.ip_sum = csum([ip_datagram0 EXCEPT !.ip_sum = 0], 20)
       /\ ~ipDatagramShouldBeDropped(ip_datagram0)

\* the value the lookup compares: the destination under the mask of the entry
MaskedDest(e, dst) == And32(ntohl(dst), ntohl(e.mask))

Replayed == run.entry = "replay"

(***************************************************************************)
(* C17: a forwarded datagram that was queued and is replayed is            *)
(* transmitted, with a TTL one less than the TTL it was received with: the *)
(* replay does not decrement a second time and does not trip the           *)
(* assertion of ip_dec_ttl.                                                *)
(***************************************************************************)
C17_ReplayKeepsTtl ==
    Replayed =>
       /\ ~aborted
       /\ CountCalls(TransmitOps) = 1
       /\ \A i \in CallIdx :
             calls[i].op \in TransmitOps => calls[i].ttl = ip_datagram0.ip_ttl - 1

====
